---- MODULE Spec2Model ----
(***************************************************************************)
(* Model of NetAuth/nsscache: the cache filler (cachefiller.go, driven by  *)
(* main.go) and the older daemon (cmd/nsscached/main.go).  Strings are     *)
(* sequences of one-character strings, so that formatting, splitting and   *)
(* byte offsets are computed and not assumed.                               *)
(***************************************************************************)
EXTENDS Integers, Sequences, FiniteSets, TLC

\* ------------------------------------------------------------------ bounds
\* Numeric IDs of the directory's entities and groups range over 0..MaxNum.
MaxNum == 2

\* ----------------------------------------------------------------- strings
NUL == "\\x00"
NL == "\n"
COLON == ":"
Str0 == <<>>

\* The bytes the model uses, in ascending byte order.
ByteOrder == <<NUL, NL, "*", ",", "-", "/", "0", "1", "2", "3", "4", "5", "6", "7",
               "8", "9", COLON, "D", "I", "U", "a", "b", "g", "h", "n", "s", "x",
               "z", "{", "}">>

Ord(c) == CHOOSE i \in 1..Len(ByteOrder) : ByteOrder[i] = c

DigitChars == <<"0", "1", "2", "3", "4", "5", "6", "7", "8", "9">>

\* fmt's %d verb.
RECURSIVE Itoa(_)
Itoa(n) ==
    IF n < 0 THEN <<"-">> \o Itoa(-n)
    ELSE IF n < 10 THEN <<DigitChars[n + 1]>>
    ELSE Itoa(n \div 10) \o <<DigitChars[(n % 10) + 1]>>

\* uint32(x) of an int32 x, as its two 16-bit halves: the model checker's
\* integers are 32-bit signed, so x + 2^32 is kept as (hi, lo).
Half == 65536

ToUint32(n) == [hi |-> (n \div Half) % Half, lo |-> n % Half]

\* strings.Index: the 0-based position of the first occurrence, or -1.
Index(s, sep) ==
    LET hits == {i \in 0..(Len(s) - Len(sep)) : SubSeq(s, i + 1, i + Len(sep)) = sep}
    IN IF hits = {} THEN -1 ELSE CHOOSE i \in hits : \A j \in hits : i <= j

\* strings.Replace(s, old, new, -1) for a non-empty old.
RECURSIVE Replace(_, _, _)
Replace(s, old, new) ==
    LET j == Index(s, old)
    IN IF j = -1 THEN s
       ELSE SubSeq(s, 1, j) \o new \o Replace(SubSeq(s, j + Len(old) + 1, Len(s)), old, new)

\* strings.Split(s, sep) for a one-byte sep.
RECURSIVE Split(_, _)
Split(s, sep) ==
    LET j == Index(s, <<sep>>)
    IN IF j = -1 THEN <<s>>
       ELSE <<SubSeq(s, 1, j)>> \o Split(SubSeq(s, j + 2, Len(s)), sep)

\* strings.Join(list, sep).
RECURSIVE Join(_, _)
Join(list, sep) ==
    IF Len(list) = 0 THEN Str0
    ELSE IF Len(list) = 1 THEN list[1]
    ELSE list[1] \o sep \o Join(Tail(list), sep)

\* All orders in which a range over a Go map can visit the key set S.
Perms(S) ==
    {p \in [1..Cardinality(S) -> S] : \A i, j \in 1..Cardinality(S) : i # j => p[i] # p[j]}

Range(f) == {f[i] : i \in DOMAIN f}

\* -------------------------------------------------------------- vocabulary
UIDToken == <<"{", "U", "I", "D", "}">>

EntityIDs == {<<"a">>, <<"b">>}
GroupNames == {<<"g">>, <<"h">>}
Nums == 0..MaxNum

ShSh == <<"/", "s", "h">>
ShZsh == <<"/", "z", "s", "h">>
ShNologin == <<"/", "n">>
HomeTmpl == <<"/", "{", "U", "I", "D", "}">>
HomeSet == <<"/", "h">>

\* The files the two programs write.
FlatFiles == {"passwd", "group"}
IndexFiles == {"passwd.ixname", "passwd.ixuid", "group.ixname", "group.ixgid"}
Files == FlatFiles \cup IndexFiles \cup {"shadow"}
FlatOf(ix) == IF ix \in {"passwd.ixname", "passwd.ixuid"} THEN "passwd" ELSE "group"

VARIABLES
    prog,        \* the binary that runs: "nsscache" (main.go) or "nsscached"
    pc,          \* position of the run
    cfg,         \* flags: MinUID, MinGID, DefaultShell, DefaultHome, AllowedShells
    dir,         \* what the directory source answers: groups, entities, members
    failed,      \* directory calls that returned an error in this run
    groups,      \* NetAuthCacheFiller.groups : name -> group
    pgroups,     \* NetAuthCacheFiller.pgroups : name -> uint32
    entities,    \* NetAuthCacheFiller.entities : ID -> entity
    members,     \* NetAuthCacheFiller.members : name -> list of IDs
    caches,      \* entries added to the passwd, group and shadow caches
    entList,     \* nsscached main: entList
    grpList,     \* nsscached main: grpList
    grpMap,      \* nsscached main: grpMap
    passwd,      \* nsscached main: passwd lines
    group,       \* nsscached main: group lines
    unwritable,  \* paths on which a write fails during this run
    attempted,   \* files this run tried to write
    disk,        \* per file: "previous" content or the "current" run's
    run,         \* 1 in the first run of the program, 2 in a second one
    firstOut,    \* what the first run produced, kept when a second one starts
    args,        \* arguments of a direct call of genIndex/writeMap or writeIndex
    ret          \* what that call returned

vars == <<prog, pc, cfg, dir, failed, groups, pgroups, entities, members, caches,
          entList, grpList, grpMap, passwd, group, unwritable, attempted, disk,
          run, firstOut, args, ret>>

fillerVars == <<groups, pgroups, entities, members, caches>>
daemonVars == <<entList, grpList, grpMap, passwd, group>>
\* What no step of a run changes.
envVars == <<prog, cfg, dir, unwritable, run, firstOut, args, ret>>

EmptyMap == [k \in {} |-> 0]
EmptyCaches == [passwd |-> <<>>, group |-> <<>>, shadow |-> <<>>]

\* The last element of list whose index is in idx and whose key is k: a later
\* assignment to a map key overwrites an earlier one.
LastIndex(idx) == CHOOSE i \in idx : \A j \in idx : j <= i

\* ------------------------------------------------------- cachefiller.go
GroupBelowCutoff(g) == g.Number < cfg.MinGID

\* The groups findGroups keeps, as indexes into the response.
KeptGroupIdx(grps) == {i \in 1..Len(grps) : ~GroupBelowCutoff(grps[i])}

findGroupsMap(grps) ==
    LET kept == KeptGroupIdx(grps)
        names == {grps[i].Name : i \in kept}
    IN [n \in names |-> grps[LastIndex({i \in kept : grps[i].Name = n})]]

\* Mutant: the cutoff also drops the boundary value.
EntityBelowCutoffOffByOne(e) == e.Number <= cfg.MinUID

EntityBelowCutoff(e) == e.Number < cfg.MinUID

\* Mutant: the primary group is not looked up in pgroups.
HasPrimaryGroupUnchecked(e, pg) == TRUE

HasPrimaryGroup(e, pg) == e.PrimaryGroup \in DOMAIN pg

hasBadShell(s) == \A i \in 1..Len(cfg.AllowedShells) : cfg.AllowedShells[i] # s

fillerShell(e) == IF hasBadShell(e.Shell) THEN cfg.DefaultShell ELSE e.Shell

\* Mutant: strings.Replace with n = 1, only the first token is replaced.
ReplaceFirst(s, old, new) ==
    LET j == Index(s, old)
    IN IF j = -1 THEN s
       ELSE SubSeq(s, 1, j) \o new \o SubSeq(s, j + Len(old) + 1, Len(s))

fillerHomeFirstOnly(e) ==
    IF e.Home = Str0 THEN ReplaceFirst(cfg.DefaultHome, UIDToken, e.ID) ELSE e.Home

fillerHome(e) ==
    IF e.Home = Str0 THEN Replace(cfg.DefaultHome, UIDToken, e.ID) ELSE e.Home

KeptEntityIdx(ents, pg) ==
    {i \in 1..Len(ents) : ~EntityBelowCutoff(ents[i]) /\ HasPrimaryGroup(ents[i], pg)}

findEntitiesMap(ents, pg) ==
    LET kept == KeptEntityIdx(ents, pg)
        ids == {ents[i].ID : i \in kept}
    IN [id \in ids |->
          LET e == ents[LastIndex({i \in kept : ents[i].ID = id})]
          IN [e EXCEPT !.Shell = fillerShell(e), !.Home = fillerHome(e)]]

\* tmp after the first loop of findMembers: the reported members that were kept.
ReportedMembers(g) == {m \in dir.members[g] : m \in DOMAIN entities}

\* Mutant: the second loop of findMembers is left out.
PrimaryMembersSkipped(g) == {}

\* tmp after the second loop: every entity is added to its primary group.
PrimaryMembers(g) == {id \in DOMAIN entities : entities[id].PrimaryGroup = g}

MemberSet(g) == ReportedMembers(g) \cup PrimaryMembers(g)

\* The slices the last loop of findMembers can build: each set in any order.
MemberLists ==
    {m \in [DOMAIN groups -> UNION {Perms(MemberSet(g)) : g \in DOMAIN groups}] :
        \A g \in DOMAIN groups : m[g] \in Perms(MemberSet(g))}

PGroupLookup(name) == IF name \in DOMAIN pgroups THEN pgroups[name] ELSE 0

MembersLookup(name) == IF name \in DOMAIN members THEN members[name] ELSE <<>>

PasswdEntry(e) ==
    [Name |-> e.ID, Passwd |-> <<"*">>, UID |-> ToUint32(e.Number),
     GID |-> PGroupLookup(e.PrimaryGroup), Dir |-> e.Home, Shell |-> e.Shell]

GroupEntry(g) ==
    [Name |-> g.Name, Passwd |-> <<"*">>, GID |-> ToUint32(g.Number),
     Mem |-> MembersLookup(g.Name)]

ShadowEntry(e) == [Name |-> e.ID, Passwd |-> <<"*">>]

\* The orders in which a range over the entities / groups map visits its keys.
EntityOrders == Perms(DOMAIN entities)
GroupOrders == Perms(DOMAIN groups)

findGroups ==
    /\ prog = "nsscache" /\ pc = "findGroups"
    /\ \/ /\ failed' = failed \cup {"GroupSearch"}
          /\ pc' = "exit"
          /\ UNCHANGED <<groups, pgroups>>
       \/ /\ groups' = findGroupsMap(dir.groups)
          /\ pgroups' = [n \in DOMAIN groups' |-> ToUint32(groups'[n].Number)]
          /\ pc' = "findEntities"
          /\ UNCHANGED failed
    /\ UNCHANGED <<entities, members, caches, daemonVars, envVars, attempted, disk>>

findEntities ==
    /\ prog = "nsscache" /\ pc = "findEntities"
    /\ \/ /\ failed' = failed \cup {"EntitySearch"}
          /\ pc' = "exit"
          /\ UNCHANGED entities
       \/ /\ entities' = findEntitiesMap(dir.entities, pgroups)
          /\ pc' = "findMembers"
          /\ UNCHANGED failed
    /\ UNCHANGED <<groups, pgroups, members, caches, daemonVars, envVars, attempted, disk>>

findMembers ==
    /\ prog = "nsscache" /\ pc = "findMembers"
    /\ \/ /\ groups # EmptyMap
          /\ failed' = failed \cup {"GroupMembers"}
          /\ pc' = "exit"
          /\ UNCHANGED members
       \/ /\ \E id \in DOMAIN entities : entities[id].PrimaryGroup \notin DOMAIN groups
          /\ pc' = "panic"
          /\ UNCHANGED <<failed, members>>
       \/ /\ \A id \in DOMAIN entities : entities[id].PrimaryGroup \in DOMAIN groups
          /\ \E m \in MemberLists : members' = m
          /\ pc' = "FillPasswdCache"
          /\ UNCHANGED failed
    /\ UNCHANGED <<groups, pgroups, entities, caches, daemonVars, envVars, attempted, disk>>

FillPasswdCache ==
    /\ prog = "nsscache" /\ pc = "FillPasswdCache"
    /\ \E o \in EntityOrders :
          caches' = [caches EXCEPT !.passwd = [i \in 1..Len(o) |-> PasswdEntry(entities[o[i]])]]
    /\ pc' = "FillGroupCache"
    /\ UNCHANGED <<failed, groups, pgroups, entities, members, daemonVars, envVars,
                   attempted, disk>>

FillGroupCache ==
    /\ prog = "nsscache" /\ pc = "FillGroupCache"
    /\ \E o \in GroupOrders :
          caches' = [caches EXCEPT !.group = [i \in 1..Len(o) |-> GroupEntry(groups[o[i]])]]
    /\ pc' = "FillShadowCache"
    /\ UNCHANGED <<failed, groups, pgroups, entities, members, daemonVars, envVars,
                   attempted, disk>>

FillShadowCache ==
    /\ prog = "nsscache" /\ pc = "FillShadowCache"
    /\ \E o \in EntityOrders :
          caches' = [caches EXCEPT !.shadow = [i \in 1..Len(o) |-> ShadowEntry(entities[o[i]])]]
    /\ pc' = "WriteFiles"
    /\ UNCHANGED <<failed, groups, pgroups, entities, members, daemonVars, envVars,
                   attempted, disk>>

\* cm.WriteFiles: the three caches are written below the output directory; an
\* error is logged and the program ends either way.
FillerFiles == {"passwd", "group", "shadow"}

WriteFiles ==
    /\ prog = "nsscache" /\ pc = "WriteFiles"
    /\ attempted' = attempted \cup FillerFiles
    /\ disk' = [f \in Files |->
                  IF f \in FillerFiles /\ FillerFiles \cap unwritable = {}
                  THEN "current" ELSE disk[f]]
    /\ pc' = "done"
    /\ UNCHANGED <<failed, fillerVars, daemonVars, envVars>>

\* ------------------------------------------------- cmd/nsscached/main.go
\* sort.Slice by number: the sort is not stable, so any order of the elements
\* that is ascending by number can come out.
SortedByNumber(list) ==
    {[i \in 1..Len(list) |-> list[p[i]]] :
        p \in {q \in Perms(1..Len(list)) :
                 \A i, j \in 1..Len(list) : i < j => list[q[i]].Number <= list[q[j]].Number}}

UIDBelowMin(e) == e.Number < cfg.MinUID

GIDBelowMin(g) == g.Number < cfg.MinGID

mainGrpMap(grps) ==
    LET kept == {i \in 1..Len(grps) : ~GIDBelowMin(grps[i])}
        names == {grps[i].Name : i \in kept}
    IN [n \in names |-> grps[LastIndex({i \in kept : grps[i].Name = n})]]

checkShell(shell) ==
    IF \E i \in 1..Len(cfg.AllowedShells) : cfg.AllowedShells[i] = shell
    THEN shell ELSE cfg.DefaultShell

genPasswdHome(e) ==
    IF e.Home = Str0 THEN Replace(cfg.DefaultHome, UIDToken, e.ID) ELSE e.Home

\* Sprintf("%s:x:%d:%d:%s:%s:%s", ...)
PasswdLine(e, gm) ==
    e.ID \o <<COLON, "x", COLON>> \o Itoa(e.Number) \o <<COLON>>
         \o Itoa(gm[e.PrimaryGroup].Number) \o <<COLON>> \o e.GECOS \o <<COLON>>
         \o genPasswdHome(e) \o <<COLON>> \o checkShell(e.Shell)

\* The entities genPasswd does not drop.
genPasswdKeeps(e, gm) == ~UIDBelowMin(e) /\ e.HasMeta /\ e.PrimaryGroup \in DOMAIN gm

RECURSIVE genPasswdLines(_, _)
genPasswdLines(sorted, gm) ==
    IF Len(sorted) = 0 THEN <<>>
    ELSE (IF genPasswdKeeps(Head(sorted), gm) THEN <<PasswdLine(Head(sorted), gm)>> ELSE <<>>)
         \o genPasswdLines(Tail(sorted), gm)

\* nacl.ListGroups(id, indirects): the names of the groups the directory
\* reports the entity in.
ListGroupsOf(id) == {n \in DOMAIN dir.members : id \in dir.members[n]}

\* groups[name] in genGroup: the IDs of the entities reported in the group, in
\* the order of entList.
RECURSIVE genGroupMembers(_, _, _)
genGroupMembers(ents, i, name) ==
    IF i > Len(ents) THEN <<>>
    ELSE (IF name \in ListGroupsOf(ents[i].ID)
          THEN <<ents[i].ID>> ELSE <<>>)
         \o genGroupMembers(ents, i + 1, name)

\* Sprintf("%s:x:%d:%s", ...)
GroupLine(g, ents) ==
    g.Name \o <<COLON, "x", COLON>> \o Itoa(g.Number) \o <<COLON>>
           \o Join(genGroupMembers(ents, 1, g.Name), <<",">>)

RECURSIVE genGroupLines(_, _)
genGroupLines(sorted, ents) ==
    IF Len(sorted) = 0 THEN <<>>
    ELSE <<GroupLine(Head(sorted), ents)>> \o genGroupLines(Tail(sorted), ents)

\* writeMap: the bytes handed to ioutil.WriteFile.
writeMapBytes(mapLines) == Join(mapLines, <<NL>>) \o <<NL>>

\* genIndex: the map from key to offset, as the loop leaves it.
RECURSIVE genIndexFrom(_, _, _, _)
genIndexFrom(lines, indexCol, offset, iMap) ==
    IF Len(lines) = 0 THEN iMap
    ELSE LET l == Head(lines)
             key == Split(l, COLON)[indexCol + 1]
         IN genIndexFrom(Tail(lines), indexCol, offset + Len(l) + 1,
                [k \in DOMAIN iMap \cup {key} |-> IF k = key THEN offset ELSE iMap[k]])

\* Mutant: the offset leaves out the newline that ends each line.
RECURSIVE genIndexFromNoNewline(_, _, _, _)
genIndexFromNoNewline(lines, indexCol, offset, iMap) ==
    IF Len(lines) = 0 THEN iMap
    ELSE LET l == Head(lines)
             key == Split(l, COLON)[indexCol + 1]
         IN genIndexFromNoNewline(Tail(lines), indexCol, offset + Len(l),
                [k \in DOMAIN iMap \cup {key} |-> IF k = key THEN offset ELSE iMap[k]])

genIndexNoNewline(lines, indexCol) == genIndexFromNoNewline(lines, indexCol, 0, EmptyMap)

genIndex(lines, indexCol) == genIndexFrom(lines, indexCol, 0, EmptyMap)

\* Lexicographic byte order of strings, as sort.Strings compares them.
RECURSIVE StrLess(_, _)
StrLess(a, b) ==
    IF Len(b) = 0 THEN FALSE
    ELSE IF Len(a) = 0 THEN TRUE
    ELSE IF Head(a) # Head(b) THEN Ord(Head(a)) < Ord(Head(b))
    ELSE StrLess(Tail(a), Tail(b))

\* keyList after sort.Strings.
SortedKeys(index) ==
    CHOOSE p \in Perms(DOMAIN index) : \A i, j \in 1..Len(p) : i < j => StrLess(p[i], p[j])

\* fmt's %08d verb for a value >= 0.
RECURSIVE Zeros(_)
Zeros(n) == IF n <= 0 THEN <<>> ELSE <<"0">> \o Zeros(n - 1)

Fmt08d(v) == Zeros(8 - Len(Itoa(v))) \o Itoa(v)

\* The loop "for i := 0; i < 32-len(key)-1; i++" writes one NUL per round.
RECURSIVE Padding(_)
Padding(n) == IF n <= 0 THEN <<>> ELSE <<NUL>> \o Padding(n - 1)

\* Mutant: the padding also leaves room for the eight digits.
IndexPadLenTo32(key) == 32 - Len(key) - 1 - 8

IndexPadLen(key) == 32 - Len(key) - 1

IndexRecord(key, value) ==
    key \o <<NUL>> \o Fmt08d(value) \o Padding(IndexPadLen(key)) \o <<NL>>

RECURSIVE writeIndexFrom(_, _)
writeIndexFrom(keyList, index) ==
    IF Len(keyList) = 0 THEN <<>>
    ELSE IndexRecord(Head(keyList), index[Head(keyList)])
         \o writeIndexFrom(Tail(keyList), index)

\* writeIndex: the bytes handed to ioutil.WriteFile.
writeIndexBytes(index) == writeIndexFrom(SortedKeys(index), index)

\* main, up to grpMap: a failed listing is logged and leaves a nil list.
nsscachedList ==
    /\ prog = "nsscached" /\ pc = "list"
    /\ \E okE, okG \in BOOLEAN :
          /\ entList' = IF okE THEN dir.entities ELSE <<>>
          /\ grpList' = IF okG THEN dir.groups ELSE <<>>
          /\ failed' = failed \cup (IF okE THEN {} ELSE {"ListGroupMembers"})
                              \cup (IF okG THEN {} ELSE {"ListGroups"})
    /\ grpMap' = mainGrpMap(grpList')
    /\ pc' = "genPasswd"
    /\ UNCHANGED <<fillerVars, passwd, group, envVars, attempted, disk>>

genPasswd ==
    /\ prog = "nsscached" /\ pc = "genPasswd"
    /\ \E sorted \in SortedByNumber(entList) :
          /\ entList' = sorted
          /\ passwd' = genPasswdLines(sorted, grpMap)
    /\ pc' = "genGroup"
    /\ UNCHANGED <<failed, fillerVars, grpList, grpMap, group, envVars, attempted, disk>>

genGroup ==
    /\ prog = "nsscached" /\ pc = "genGroup"
    /\ \/ /\ Len(entList) > 0
          /\ failed' = failed \cup {"ListGroupsOfEntity"}
          /\ pc' = "exit"
          /\ UNCHANGED <<grpList, group>>
       \/ /\ \E sorted \in SortedByNumber(grpList) :
                /\ grpList' = sorted
                /\ group' = genGroupLines(sorted, entList)
          /\ pc' = "writeMaps"
          /\ UNCHANGED failed
    /\ UNCHANGED <<fillerVars, entList, grpMap, passwd, envVars, attempted, disk>>

\* The two writeMap calls of main: each failure is logged, nothing else.
nsscachedWriteMaps ==
    /\ prog = "nsscached" /\ pc = "writeMaps"
    /\ attempted' = attempted \cup FlatFiles
    /\ disk' = [f \in Files |->
                  IF f \in FlatFiles /\ f \notin unwritable THEN "current" ELSE disk[f]]
    /\ pc' = "writeIndexes"
    /\ UNCHANGED <<failed, fillerVars, daemonVars, envVars>>

\* Which index main writes under which name.
IndexCol(ix) == IF ix \in {"passwd.ixname", "group.ixname"} THEN 0 ELSE 2

LinesOf(flat) == IF flat = "passwd" THEN passwd ELSE group

mainIndex(ix) == genIndex(LinesOf(FlatOf(ix)), IndexCol(ix))

\* The files main generates an index for and writes it.
mainIndexed == IndexFiles

\* The four genIndex and the four writeIndex calls of main.
nsscachedWriteIndexes ==
    /\ prog = "nsscached" /\ pc = "writeIndexes"
    /\ attempted' = attempted \cup mainIndexed
    /\ disk' = [f \in Files |->
                  IF f \in mainIndexed /\ f \notin unwritable THEN "current" ELSE disk[f]]
    /\ pc' = "done"
    /\ UNCHANGED <<failed, fillerVars, daemonVars, envVars>>

\* What the run hands to ioutil.WriteFile for a file nsscached writes.
FileBytes(f) ==
    IF f \in FlatFiles THEN writeMapBytes(LinesOf(f)) ELSE writeIndexBytes(mainIndex(f))

\* -------------------------------------------------------- specifications
Thresholds == {1, 2}

NoMeta(id, n) ==
    [ID |-> id, Number |-> n, HasMeta |-> FALSE, PrimaryGroup |-> Str0,
     GECOS |-> Str0, Home |-> Str0, Shell |-> Str0]

WithMeta(id, n, pg, home, shell) ==
    [ID |-> id, Number |-> n, HasMeta |-> TRUE, PrimaryGroup |-> pg,
     GECOS |-> Str0, Home |-> home, Shell |-> shell]

\* Directory answers: every numbering of the two groups and the two entities,
\* every primary group (also none), entity a also without metadata, and every
\* membership relation.  The two thresholds differ in every configuration.
EntitiesA ==
    {WithMeta(<<"a">>, n, pg, Str0, ShZsh) : n \in Nums, pg \in GroupNames \cup {Str0}}
        \cup {NoMeta(<<"a">>, n) : n \in Nums}

EntitiesB ==
    {WithMeta(<<"b">>, n, pg, HomeSet, ShSh) : n \in Nums, pg \in GroupNames \cup {Str0}}

GroupLists ==
    {<<[Name |-> <<"g">>, Number |-> n1], [Name |-> <<"h">>, Number |-> n2]>> :
        n1 \in Nums, n2 \in Nums}

Directories ==
    {[groups |-> gl, entities |-> <<ea, eb>>, members |-> m] :
        gl \in GroupLists, ea \in EntitiesA, eb \in EntitiesB,
        m \in [GroupNames -> SUBSET EntityIDs]}

Configs ==
    {[MinUID |-> t[1], MinGID |-> t[2], DefaultShell |-> ShNologin,
      DefaultHome |-> HomeTmpl, AllowedShells |-> <<ShSh>>] :
        t \in {x \in Thresholds \X Thresholds : x[1] # x[2]}}

InitRun ==
    /\ pc = IF prog = "nsscache" THEN "findGroups" ELSE "list"
    /\ failed = {}
    /\ groups = EmptyMap /\ pgroups = EmptyMap /\ entities = EmptyMap
    /\ members = EmptyMap /\ caches = EmptyCaches
    /\ entList = <<>> /\ grpList = <<>> /\ grpMap = EmptyMap
    /\ passwd = <<>> /\ group = <<>>
    /\ attempted = {}
    /\ disk = [f \in Files |-> "previous"]

NoCall == [fn |-> "none", lines |-> <<>>, indexCol |-> 0, index |-> EmptyMap]
NoRet == [fn |-> "none", index |-> EmptyMap, bytes |-> <<>>]

FirstRun ==
    /\ run = 1
    /\ firstOut = [caches |-> EmptyCaches, passwd |-> <<>>, group |-> <<>>]
    /\ args = NoCall /\ ret = NoRet

Init ==
    /\ prog \in {"nsscache", "nsscached"}
    /\ cfg \in Configs
    /\ dir \in Directories
    /\ unwritable = {}
    /\ InitRun
    /\ FirstRun

Next ==
    \/ findGroups \/ findEntities \/ findMembers
    \/ FillPasswdCache \/ FillGroupCache \/ FillShadowCache \/ WriteFiles
    \/ nsscachedList \/ genPasswd \/ genGroup
    \/ nsscachedWriteMaps \/ nsscachedWriteIndexes

Spec == Init /\ [][Next]_vars

\* The policy of shell and home: both entities are kept, every shell and home
\* of the two entities, every template, allow-list and default shell.
Templates ==
    {HomeTmpl, UIDToken \o UIDToken, HomeSet, <<"{", "U">> \o UIDToken \o <<"}">>,
     Str0, <<"/", "{", "U", "I", "D">>, UIDToken \o <<"/">> \o UIDToken}

ShellDirectories ==
    {[groups |-> <<[Name |-> <<"g">>, Number |-> n], [Name |-> <<"h">>, Number |-> 0]>>,
      entities |-> <<WithMeta(<<"a">>, n, <<"g">>, ha, sa),
                     WithMeta(<<"b">>, MaxNum, <<"g">>, hb, sb)>>,
      members |-> [x \in GroupNames |-> {}]] :
        n \in Nums \ {0}, ha \in {Str0, HomeSet}, hb \in {Str0, HomeSet},
        sa \in {Str0, ShSh, ShZsh}, sb \in {Str0, ShSh, ShZsh}}

ShellConfigs ==
    {[MinUID |-> 1, MinGID |-> 1, DefaultShell |-> ds, DefaultHome |-> t,
      AllowedShells |-> al] :
        ds \in {ShNologin, ShSh}, t \in Templates, al \in {<<ShSh>>, <<ShSh, ShZsh>>, <<>>}}

InitShell ==
    /\ prog \in {"nsscache", "nsscached"}
    /\ cfg \in ShellConfigs
    /\ dir \in ShellDirectories
    /\ unwritable = {}
    /\ InitRun
    /\ FirstRun

SpecShell == InitShell /\ [][Next]_vars

\* Write failures: a few directories, and every set of unwritable paths.
SmallDirectories ==
    {[groups |-> <<[Name |-> <<"g">>, Number |-> MaxNum], [Name |-> <<"h">>, Number |-> 0]>>,
      entities |-> <<WithMeta(<<"a">>, na, <<"g">>, Str0, ShZsh),
                     WithMeta(<<"b">>, nb, <<"g">>, HomeSet, ShSh)>>,
      members |-> [x \in GroupNames |-> IF x = <<"g">> THEN {<<"a">>} ELSE {<<"a">>, <<"b">>}]] :
        na \in Nums, nb \in Nums}

InitIO ==
    /\ prog \in {"nsscache", "nsscached"}
    /\ cfg \in {c \in Configs : c.MinUID = 1}
    /\ dir \in SmallDirectories
    /\ unwritable \in SUBSET Files
    /\ InitRun
    /\ FirstRun

SpecIO == InitIO /\ [][Next]_vars

\* A second run of the same program against the same directory answers and
\* the same configuration.
Rerun ==
    /\ pc = "done" /\ run = 1
    /\ run' = 2
    /\ firstOut' = [caches |-> caches, passwd |-> passwd, group |-> group]
    /\ pc' = IF prog = "nsscache" THEN "findGroups" ELSE "list"
    /\ failed' = {}
    /\ groups' = EmptyMap /\ pgroups' = EmptyMap /\ entities' = EmptyMap
    /\ members' = EmptyMap /\ caches' = EmptyCaches
    /\ entList' = <<>> /\ grpList' = <<>> /\ grpMap' = EmptyMap
    /\ passwd' = <<>> /\ group' = <<>>
    /\ attempted' = {}
    /\ disk' = [f \in Files |-> "previous"]
    /\ UNCHANGED <<prog, cfg, dir, unwritable, args, ret>>

InitRerun ==
    /\ prog \in {"nsscache", "nsscached"}
    /\ cfg \in {c \in Configs : c.MinUID = 1}
    /\ dir \in SmallDirectories
    /\ unwritable = {}
    /\ InitRun
    /\ FirstRun

NextRerun == Next \/ Rerun

SpecRerun == InitRerun /\ [][NextRerun]_vars

\* genIndex, writeMap and writeIndex called directly on bounded arguments.
MaxLines == 2
MaxKeyLen == 33

LinePool ==
    {f0 \o <<COLON, "x", COLON>> \o f2 \o rest :
        f0 \in {Str0, <<"a">>, <<"b">>, <<"a", "b">>},
        f2 \in {<<"1">>, <<"2">>, <<"1", "0">>},
        rest \in {Str0, <<COLON, "a">>}}

LineLists == UNION {[1..n -> LinePool] : n \in 0..MaxLines}

KeyOfLen(n) == [i \in 1..n |-> "a"]

Offsets == {0, 42, 99999999, 100000000}

IndexMaps ==
    {[k \in {KeyOfLen(n)} |-> v] : n \in 0..MaxKeyLen, v \in Offsets}
        \cup {[k \in {KeyOfLen(n), <<"b">>} |-> IF k = <<"b">> THEN 7 ELSE v] :
                 n \in 0..MaxKeyLen, v \in Offsets}

Calls ==
    {[fn |-> "genIndex", lines |-> l, indexCol |-> c, index |-> EmptyMap] :
        l \in LineLists, c \in {0, 2}}
        \cup {[fn |-> "writeIndex", lines |-> <<>>, indexCol |-> 0, index |-> m] :
                 m \in IndexMaps}

runVars == <<pc, failed, fillerVars, daemonVars, attempted, disk>>

\* genIndex(lines, indexCol) and writeMap(lines, ...) on the same list.
CallGenIndex ==
    /\ args.fn = "genIndex" /\ ret.fn = "none"
    /\ ret' = [fn |-> "genIndex", index |-> genIndex(args.lines, args.indexCol),
               bytes |-> writeMapBytes(args.lines)]
    /\ UNCHANGED <<runVars, prog, cfg, dir, unwritable, run, firstOut, args>>

\* writeIndex(index, ...).
CallWriteIndex ==
    /\ args.fn = "writeIndex" /\ ret.fn = "none"
    /\ ret' = [fn |-> "writeIndex", index |-> args.index,
               bytes |-> writeIndexBytes(args.index)]
    /\ UNCHANGED <<runVars, prog, cfg, dir, unwritable, run, firstOut, args>>

InitIndex ==
    /\ prog = "nsscached"
    /\ cfg \in {c \in Configs : c.MinUID = 1}
    /\ dir \in {d \in SmallDirectories : d.entities[1].Number = 0 /\ d.entities[2].Number = 0}
    /\ unwritable = {}
    /\ pc = "call"
    /\ failed = {}
    /\ groups = EmptyMap /\ pgroups = EmptyMap /\ entities = EmptyMap
    /\ members = EmptyMap /\ caches = EmptyCaches
    /\ entList = <<>> /\ grpList = <<>> /\ grpMap = EmptyMap
    /\ passwd = <<>> /\ group = <<>>
    /\ attempted = {}
    /\ disk = [f \in Files |-> "previous"]
    /\ run = 1
    /\ firstOut = [caches |-> EmptyCaches, passwd |-> <<>>, group |-> <<>>]
    /\ args \in Calls
    /\ ret = NoRet

NextIndex == CallGenIndex \/ CallWriteIndex

SpecIndex == InitIndex /\ [][NextIndex]_vars

\* ------------------------------------------------------------ properties
\* What the directory answered in this run: a failed listing answers nothing.
RespEntities ==
    IF prog = "nsscached" /\ "ListGroupMembers" \in failed THEN {} ELSE Range(dir.entities)

RespGroups ==
    IF prog = "nsscached" /\ "ListGroups" \in failed THEN {} ELSE Range(dir.groups)

\* Names of the answered groups whose number is at least the minimum.
RetainedNames == {g.Name : g \in {x \in RespGroups : x.Number >= cfg.MinGID}}

FillerPasswdDone ==
    prog = "nsscache" /\ pc \in {"FillGroupCache", "FillShadowCache", "WriteFiles", "done"}

FillerGroupDone == prog = "nsscache" /\ pc \in {"FillShadowCache", "WriteFiles", "done"}

DaemonPasswdDone ==
    prog = "nsscached" /\ pc \in {"genGroup", "writeMaps", "writeIndexes", "done", "exit"}

DaemonGroupDone == prog = "nsscached" /\ pc \in {"writeMaps", "writeIndexes", "done"}

PasswdDone == FillerPasswdDone \/ DaemonPasswdDone
GroupDone == FillerGroupDone \/ DaemonGroupDone

Field(line, n) == Split(line, COLON)[n]

\* Account names in the passwd output, group names in the group output.
PasswdNames ==
    IF prog = "nsscache" THEN {caches.passwd[i].Name : i \in DOMAIN caches.passwd}
    ELSE {Field(passwd[i], 1) : i \in DOMAIN passwd}

GroupOutNames ==
    IF prog = "nsscache" THEN {caches.group[i].Name : i \in DOMAIN caches.group}
    ELSE {Field(group[i], 1) : i \in DOMAIN group}

\* The members the group output lists for a group name.
GroupOutMembers(name) ==
    IF prog = "nsscache"
    THEN UNION {Range(caches.group[i].Mem) :
                  i \in {j \in DOMAIN caches.group : caches.group[j].Name = name}}
    ELSE UNION {Range(Split(Field(group[i], 4), ",")) \ {Str0} :
                  i \in {j \in DOMAIN group : Field(group[j], 1) = name}}

\* C1: in both programs no account numbered below minUID is in the passwd
\* output, and an account numbered exactly minUID that has metadata and a
\* retained primary group is in it.
C1_MinUIDBoundary ==
    PasswdDone =>
        /\ \A e \in Range(dir.entities) : e.Number < cfg.MinUID => e.ID \notin PasswdNames
        /\ \A e \in RespEntities :
              (e.Number = cfg.MinUID /\ e.HasMeta /\ e.PrimaryGroup \in RetainedNames)
                  => e.ID \in PasswdNames

C1_Witness ==
    /\ prog = "nsscached" /\ pc = "done"
    /\ \E e \in RespEntities : e.Number = cfg.MinUID /\ e.ID \in PasswdNames
    /\ \E e \in RespEntities : e.Number < cfg.MinUID /\ e.HasMeta
                                 /\ e.PrimaryGroup \in RetainedNames

\* C2: in both programs no group numbered below minGID is in the group
\* output, and no account of the passwd output has such a group as its
\* primary group.
C2_MinGID ==
    /\ GroupDone =>
          \A g \in Range(dir.groups) : g.Number < cfg.MinGID => g.Name \notin GroupOutNames
    /\ PasswdDone =>
          \A e \in Range(dir.entities) : \A g \in Range(dir.groups) :
              (e.ID \in PasswdNames /\ e.PrimaryGroup = g.Name) => ~(g.Number < cfg.MinGID)

\* C3: after NewCacheFiller, every account FillPasswdCache emits has its
\* primary group among the entries FillGroupCache emits, and is in the Mem of
\* that entry, also when GroupMembers did not list it.
C3_PrimaryGroupMember ==
    FillerGroupDone =>
        \A e \in Range(dir.entities) :
            e.ID \in PasswdNames =>
                /\ e.PrimaryGroup \in GroupOutNames
                /\ \A i \in DOMAIN caches.group :
                      caches.group[i].Name = e.PrimaryGroup
                          => e.ID \in Range(caches.group[i].Mem)

C3_Witness ==
    /\ FillerGroupDone
    /\ \E e \in Range(dir.entities) :
          /\ e.ID \in PasswdNames
          /\ e.ID \notin dir.members[e.PrimaryGroup]
          /\ e.ID \in GroupOutMembers(e.PrimaryGroup)

\* C4: in both programs an account that is not in the passwd output is in no
\* member list of the group output.
C4_ExcludedNotMember ==
    (GroupDone /\ PasswdDone) =>
        \A e \in Range(dir.entities) :
            e.ID \notin PasswdNames => \A n \in GroupOutNames : e.ID \notin GroupOutMembers(n)

\* C9: in both programs, once a directory call has failed no file is written.
C9_FailureAborts == failed # {} => \A f \in Files : disk[f] = "previous"

\* The shells and homes the passwd output gives an account.
EmittedShells(id) ==
    IF prog = "nsscache"
    THEN {caches.passwd[i].Shell : i \in {j \in DOMAIN caches.passwd : caches.passwd[j].Name = id}}
    ELSE {Field(passwd[i], 7) : i \in {j \in DOMAIN passwd : Field(passwd[j], 1) = id}}

EmittedHomes(id) ==
    IF prog = "nsscache"
    THEN {caches.passwd[i].Dir : i \in {j \in DOMAIN caches.passwd : caches.passwd[j].Name = id}}
    ELSE {Field(passwd[i], 6) : i \in {j \in DOMAIN passwd : Field(passwd[j], 1) = id}}

\* The template read byte by byte, the identifier put for each {UID}.
RECURSIVE Substitute(_, _, _)
Substitute(t, i, id) ==
    IF i > Len(t) THEN <<>>
    ELSE IF i + 4 <= Len(t) /\ SubSeq(t, i, i + 4) = UIDToken
         THEN id \o Substitute(t, i + 5, id)
         ELSE <<t[i]>> \o Substitute(t, i + 1, id)

ExpectedShell(e) ==
    IF e.Shell \in Range(cfg.AllowedShells) THEN e.Shell ELSE cfg.DefaultShell

ExpectedHome(e) ==
    IF e.Home # Str0 THEN e.Home ELSE Substitute(cfg.DefaultHome, 1, e.ID)

\* C5: every account of the passwd output has its directory shell if that is
\* an allowed shell and the default shell otherwise, and its directory home if
\* that is not empty and otherwise the template with each {UID} replaced by
\* the account identifier.
C5_ShellAndHome ==
    PasswdDone =>
        \A e \in Range(dir.entities) :
            e.ID \in PasswdNames =>
                /\ EmittedShells(e.ID) = {ExpectedShell(e)}
                /\ EmittedHomes(e.ID) = {ExpectedHome(e)}

C5_Witness ==
    /\ prog = "nsscache" /\ pc = "done"
    /\ cfg.DefaultHome = UIDToken \o <<"/">> \o UIDToken
    /\ \E e \in Range(dir.entities) :
          /\ e.ID \in PasswdNames /\ e.Home = Str0 /\ e.Shell = Str0
          /\ EmittedHomes(e.ID) = {e.ID \o <<"/">> \o e.ID}
          /\ EmittedShells(e.ID) = {cfg.DefaultShell}

U32LessEq(a, b) == a.hi < b.hi \/ (a.hi = b.hi /\ a.lo <= b.lo)

NumberOf(id) == (CHOOSE e \in Range(dir.entities) : e.ID = id).Number

\* C8: a second run of the cache filler against the same answers and the
\* same configuration fills the caches with the same sequences of entries, in
\* ascending numeric ID order, with the same member order in every group.
C8_Deterministic ==
    (prog = "nsscache" /\ run = 2 /\ pc = "done") =>
        /\ caches = firstOut.caches
        /\ \A i, j \in DOMAIN caches.passwd :
              i < j => U32LessEq(caches.passwd[i].UID, caches.passwd[j].UID)
        /\ \A i, j \in DOMAIN caches.group :
              i < j => U32LessEq(caches.group[i].GID, caches.group[j].GID)
        /\ \A i, j \in DOMAIN caches.shadow :
              i < j => NumberOf(caches.shadow[i].Name) <= NumberOf(caches.shadow[j].Name)

\* The answered group of a name, and the answered entity of an identifier.
DirGroup(name) == CHOOSE g \in Range(dir.groups) : g.Name = name

DirEntity(id) == CHOOSE e \in Range(dir.entities) : e.ID = id

FillerAfterEntities ==
    prog = "nsscache"
        /\ pc \in {"findMembers", "panic", "FillPasswdCache", "FillGroupCache",
                   "FillShadowCache", "WriteFiles", "done"}

FillerAfterMembers ==
    prog = "nsscache"
        /\ pc \in {"FillPasswdCache", "FillGroupCache", "FillShadowCache", "WriteFiles", "done"}

\* C11: in the cache filler groups and pgroups have the same keys, and after
\* findEntities the primary group of every kept entity is one of them; so
\* every entry of FillPasswdCache has the number of the retained group its
\* account names as primary group for GID (not the zero of a missing key),
\* and findMembers makes a member list for retained groups only.
C11_PrimaryGroupIndexed ==
    prog = "nsscache" =>
        /\ DOMAIN groups = DOMAIN pgroups
        /\ pc # "panic"
        /\ FillerAfterEntities =>
              \A id \in DOMAIN entities :
                  /\ entities[id].PrimaryGroup \in DOMAIN groups
                  /\ entities[id].PrimaryGroup \in DOMAIN pgroups
        /\ FillerAfterMembers => DOMAIN members \subseteq RetainedNames
        /\ FillerPasswdDone =>
              \A i \in DOMAIN caches.passwd :
                  LET pg == DirEntity(caches.passwd[i].Name).PrimaryGroup
                  IN /\ pg \in RetainedNames
                     /\ caches.passwd[i].GID = [hi |-> 0, lo |-> DirGroup(pg).Number]

C11_Witness ==
    /\ prog = "nsscache" /\ pc = "done"
    /\ \E i \in DOMAIN caches.passwd : caches.passwd[i].GID.lo > 0
    /\ \E e \in Range(dir.entities) :
          /\ e.Number >= cfg.MinUID /\ e.HasMeta
          /\ e.PrimaryGroup \in GroupNames \ RetainedNames
          /\ e.ID \notin PasswdNames

\* C10: in nsscached the two indexes of a flat file are written only if the
\* write of that flat file succeeded in this run, so an index of this run
\* always lies beside the flat file of this run; and a failed write stops no
\* other write from being tried.
C10_IndexOnlyAfterFlat ==
    prog = "nsscached" =>
        /\ \A ix \in IndexFiles :
              (ix \in attempted \/ disk[ix] = "current") => disk[FlatOf(ix)] = "current"
        /\ pc = "done" =>
              /\ FlatFiles \subseteq attempted
              /\ \A ix \in IndexFiles : disk[FlatOf(ix)] = "current" => ix \in attempted

\* The pieces of an index file between its newlines.
Pieces(bytes) == Split(bytes, NL)

\* The records of an index file that begin with the key and a NUL.
RecordsOf(bytes, k) ==
    {r \in Range(Pieces(bytes)) :
        Len(r) > Len(k) /\ SubSeq(r, 1, Len(k)) = k /\ r[Len(k) + 1] = NUL}

DigitVal(c) == CHOOSE d \in 0..9 : DigitChars[d + 1] = c

RECURSIVE Atoi(_)
Atoi(s) ==
    IF Len(s) = 0 THEN 0
    ELSE Atoi(SubSeq(s, 1, Len(s) - 1)) * 10 + DigitVal(s[Len(s)])

\* r is: the key, one NUL, the value as eight decimal digits, then NULs up to
\* total bytes.
WellFormed(r, k, v, total) ==
    /\ Len(r) = total
    /\ Len(k) + 9 <= total
    /\ SubSeq(r, 1, Len(k)) = k
    /\ r[Len(k) + 1] = NUL
    /\ \A i \in (Len(k) + 2)..(Len(k) + 9) : r[i] \in Range(DigitChars)
    /\ Atoi(SubSeq(r, Len(k) + 2, Len(k) + 9)) = v
    /\ \A i \in (Len(k) + 10)..total : r[i] = NUL

\* Every record ends in a newline: one piece per key, then nothing.
NewlineTerminated(bytes, index) ==
    /\ Len(Pieces(bytes)) = Cardinality(DOMAIN index) + 1
    /\ Pieces(bytes)[Len(Pieces(bytes))] = Str0

LineStartsAt(file, off) ==
    off >= 0 /\ off < Len(file) /\ (off = 0 \/ file[off] = NL)

LineAt(file, off) ==
    LET rest == SubSeq(file, off + 1, Len(file))
    IN SubSeq(rest, 1, Index(rest, <<NL>>))

KeyField(line, c) ==
    LET f == Split(line, COLON) IN IF c + 1 <= Len(f) THEN f[c + 1] ELSE <<NL>>

\* C7: every key of genIndex(lines, c) maps to the byte offset at which a
\* line of the file writeMap makes from the same lines starts, and field c of
\* that line is the key, also when two lines share a key.
C7_OffsetsPointAtKey ==
    ret.fn = "genIndex" =>
        \A k \in DOMAIN ret.index :
            /\ LineStartsAt(ret.bytes, ret.index[k])
            /\ KeyField(LineAt(ret.bytes, ret.index[k]), args.indexCol) = k

C7_Witness ==
    /\ ret.fn = "genIndex"
    /\ Len(args.lines) = 2
    /\ args.lines[1] # args.lines[2]
    /\ Len(args.lines[1]) # Len(args.lines[2])
    /\ KeyField(args.lines[1], args.indexCol) = KeyField(args.lines[2], args.indexCol)
    /\ Cardinality(DOMAIN ret.index) = 1
    /\ \E k \in DOMAIN ret.index : ret.index[k] > 0
====
